---- MODULE Spec2Model ----
(***************************************************************************)
(* A state-machine model of the WiFi IDS detection engine (src/main.py):   *)
(* the rolling packet window, the per-source activity tracker, the three   *)
(* rule detectors, the periodic ML analysis cycle and the alert emitter.   *)
(*                                                                         *)
(* Time is the integer number of seconds read from time.time().            *)
(* A confidence is kept in tenths (0.8 is 8).                              *)
(***************************************************************************)
EXTENDS Integers, Sequences, FiniteSets, TLC

VARIABLES
    config,              \* self.config (the keys the engine reads)
    packet_buffer,       \* self.packet_buffer: deque(maxlen=PACKET_BUFFER_SIZE)
    connection_tracker,  \* self.connection_tracker: defaultdict(int)
    suspicious_ips,      \* self.suspicious_ips: set()
    threat_alerts,       \* self.threat_alerts: list
    is_monitoring,       \* self.is_monitoring
    fitted,              \* hasattr(self.ml_model, 'offset_')
    verdict,             \* the latest analyze_packet: its packet, what the
                         \* detectors returned and the alerts it emitted
    cycle,               \* the latest pass of continuous_analysis taken in one
                         \* piece: the window it saw, what ml_analysis did and
                         \* the alerts it emitted
    fits,                \* how many times ml_model.fit has been called
    capture,             \* the threads running start_monitoring: where each
                         \* is, and the record its packet_callback is building
    analysis,            \* the thread running continuous_analysis: where it
                         \* is, and the locals of its ml_analysis
    db,                  \* the database DB_FILE: its table threats, and how
                         \* many of the coming writes fail
    now,                 \* the value time.time() returns
    net                  \* the environment: what the network has sent so far

vars == <<config, packet_buffer, connection_tracker, suspicious_ips,
          threat_alerts, is_monitoring, fitted, verdict, cycle, fits, capture,
          analysis, db, now, net>>

\* ---------------------------------------------------------------- values

\* Python's None for an optional port (NetworkPacket.dst_port).
None == -1

\* The source addresses the modelled network holds.
HostNames == <<"H1", "H2", "H3", "H4", "H5", "H6", "H7", "H8", "H9", "H10",
               "H11", "H12", "H13">>
Addrs == {"A", "B", "C"} \cup {HostNames[i] : i \in DOMAIN HostNames}

\* The threads that may run start_monitoring (api_start_monitoring starts a
\* new one for each request it lets through).
MaxLoops == 2
Loops == 1..MaxLoops

\* No record.
NoPacket == [timestamp |-> None]

\* ------------------------------------------------------ program constants

PORT_SCAN_WINDOW == 60
PORT_SCAN_THRESHOLD == 20
DDOS_WINDOW == 10
DDOS_THRESHOLD == 100
ANALYSIS_MIN_BUFFER == 100
MIN_GROUP_SIZE == 5
MIN_FEATURES == 10
suspicious_ports == {22, 23, 135, 139, 445, 1433, 3389, 5432, 5900, 6379}

\* ------------------------------------------------------------ the records

NetworkPacket(t, src, proto, len, dport) ==
    [timestamp |-> t, src_ip |-> src, protocol |-> proto, length |-> len,
     dst_port |-> dport]

ThreatAlert(t, type, sev, src, conf) ==
    [timestamp |-> t, threat_type |-> type, severity |-> sev,
     source_ip |-> src, description |-> <<type, src>>, confidence |-> conf]

\* Python truthiness of an optional port: None and 0 are both false.
Truthy(port) == port # None /\ port # 0

\* ----------------------------------------------------------- the detectors

\* detect_port_scan firing at the threshold itself (>= for >).
detect_port_scan_at_threshold(buf, packet, t) ==
    IF ~Truthy(packet.dst_port) THEN FALSE
    ELSE LET recent_packets == {i \in 1..Len(buf) :
                                   /\ buf[i].src_ip = packet.src_ip
                                   /\ t - buf[i].timestamp < PORT_SCAN_WINDOW}
             unique_ports == {buf[i].dst_port :
                                 i \in {j \in recent_packets : Truthy(buf[j].dst_port)}}
         IN  Cardinality(unique_ports) >= PORT_SCAN_THRESHOLD

detect_port_scan(buf, packet, t) ==
    IF ~Truthy(packet.dst_port) THEN FALSE
    ELSE LET recent_packets == {i \in 1..Len(buf) :
                                   /\ buf[i].src_ip = packet.src_ip
                                   /\ t - buf[i].timestamp < PORT_SCAN_WINDOW}
             unique_ports == {buf[i].dst_port :
                                 i \in {j \in recent_packets : Truthy(buf[j].dst_port)}}
         IN  Cardinality(unique_ports) > PORT_SCAN_THRESHOLD

\* detect_suspicious_port with a mistyped port (3398 for 3389).
detect_suspicious_port_typo(packet) ==
    packet.dst_port \in (suspicious_ports \ {3389}) \cup {3398}

detect_suspicious_port(packet) ==
    packet.dst_port \in suspicious_ports

\* detect_ddos counting the records of every source.
detect_ddos_any_source(buf, packet, t) ==
    LET recent_count == Cardinality({i \in 1..Len(buf) :
                                        t - buf[i].timestamp < DDOS_WINDOW})
    IN  recent_count > DDOS_THRESHOLD

\* detect_ddos counting a record aged exactly 10s (<= for <).
detect_ddos_inclusive(buf, packet, t) ==
    LET recent_count == Cardinality({i \in 1..Len(buf) :
                                        /\ buf[i].src_ip = packet.src_ip
                                        /\ t - buf[i].timestamp <= DDOS_WINDOW})
    IN  recent_count > DDOS_THRESHOLD

detect_ddos(buf, packet, t) ==
    LET recent_count == Cardinality({i \in 1..Len(buf) :
                                        /\ buf[i].src_ip = packet.src_ip
                                        /\ t - buf[i].timestamp < DDOS_WINDOW})
    IN  recent_count > DDOS_THRESHOLD

\* -------------------------------------------------------- the alert emitter

\* store_threat_alert: the INSERT into the table threats; a failure (of the
\* connect, the execute or the commit) is caught and logged, the row is lost.
store_threat_alert(d, alert) ==
    IF d.failing > 0
    THEN [d EXCEPT !.failing = @ - 1, !.failed = @ + 1]
    ELSE [d EXCEPT !.threats = Append(@, alert)]

\* create_threat_alert keeping one alert for each kind and source.
create_threat_alert_once(st, type, sev, src, conf, t) ==
    IF \E i \in DOMAIN st.alerts :
          st.alerts[i].threat_type = type /\ st.alerts[i].source_ip = src
    THEN st
    ELSE LET alert == ThreatAlert(t, type, sev, src, conf)
         IN  [alerts |-> Append(st.alerts, alert),
              ips    |-> st.ips \cup {src},
              db     |-> store_threat_alert(st.db, alert)]

\* create_threat_alert without the update of suspicious_ips.
create_threat_alert_unlisted(st, type, sev, src, conf, t) ==
    LET alert == ThreatAlert(t, type, sev, src, conf)
    IN  [alerts |-> Append(st.alerts, alert),
         ips    |-> st.ips,
         db     |-> store_threat_alert(st.db, alert)]

\* create_threat_alert undoing the alert when the database write fails.
create_threat_alert_rollback(st, type, sev, src, conf, t) ==
    LET alert == ThreatAlert(t, type, sev, src, conf)
    IN  IF st.db.failing > 0
        THEN [st EXCEPT !.db = store_threat_alert(st.db, alert)]
        ELSE [alerts |-> Append(st.alerts, alert),
              ips    |-> st.ips \cup {src},
              db     |-> store_threat_alert(st.db, alert)]

\* create_threat_alert on threat_alerts, suspicious_ips and the database:
\* the alert joins the list, its source the set, then the alert is stored.
\* (respond_to_threat only writes to the log.)
create_threat_alert(st, type, sev, src, conf, t) ==
    LET alert == ThreatAlert(t, type, sev, src, conf)
    IN  [alerts |-> Append(st.alerts, alert),
         ips    |-> st.ips \cup {src},
         db     |-> store_threat_alert(st.db, alert)]

\* analyze_packet as an if/elif chain: only the first detector that fires
\* emits its alert.
analyze_packet_elif(st, buf, packet, t) ==
    IF detect_port_scan(buf, packet, t)
    THEN create_threat_alert(st, "PORT_SCAN", "HIGH", packet.src_ip, 8, t)
    ELSE IF detect_suspicious_port(packet)
    THEN create_threat_alert(st, "SUSPICIOUS_PORT", "MEDIUM", packet.src_ip, 6, t)
    ELSE IF detect_ddos(buf, packet, t)
    THEN create_threat_alert(st, "DDOS", "CRITICAL", packet.src_ip, 9, t)
    ELSE st

\* analyze_packet with the flood detector first.
analyze_packet_flood_first(st, buf, packet, t) ==
    LET s1 == IF detect_ddos(buf, packet, t)
              THEN create_threat_alert(st, "DDOS", "CRITICAL", packet.src_ip, 9, t)
              ELSE st
        s2 == IF detect_port_scan(buf, packet, t)
              THEN create_threat_alert(s1, "PORT_SCAN", "HIGH", packet.src_ip, 8, t)
              ELSE s1
        s3 == IF detect_suspicious_port(packet)
              THEN create_threat_alert(s2, "SUSPICIOUS_PORT", "MEDIUM", packet.src_ip, 6, t)
              ELSE s2
    IN  s3

\* analyze_packet: the three detectors in order, each firing emits an alert.
analyze_packet(st, buf, packet, t) ==
    LET s1 == IF detect_port_scan(buf, packet, t)
              THEN create_threat_alert(st, "PORT_SCAN", "HIGH", packet.src_ip, 8, t)
              ELSE st
        s2 == IF detect_suspicious_port(packet)
              THEN create_threat_alert(s1, "SUSPICIOUS_PORT", "MEDIUM", packet.src_ip, 6, t)
              ELSE s1
        s3 == IF detect_ddos(buf, packet, t)
              THEN create_threat_alert(s2, "DDOS", "CRITICAL", packet.src_ip, 9, t)
              ELSE s2
    IN  s3

\* --------------------------------------------------------------- ingestion

\* deque(maxlen=n).append: the leftmost element is dropped when full.
deque_append(buf, n, x) ==
    IF n = 0 THEN buf
    ELSE IF Len(buf) >= n THEN Append(Tail(buf), x)
    ELSE Append(buf, x)

\* Ingest with a tracker that forgets a record when the window evicts it.
Ingest_windowed(packet) ==
    LET buf == deque_append(packet_buffer, config.PACKET_BUFFER_SIZE, packet)
        out == analyze_packet([alerts |-> threat_alerts, ips |-> suspicious_ips,
                               db |-> db],
                              buf, packet, now)
        counted == [connection_tracker EXCEPT ![packet.src_ip] = @ + 1]
    IN  /\ packet_buffer' = buf
        /\ connection_tracker' =
              IF Len(packet_buffer) >= config.PACKET_BUFFER_SIZE
              THEN [counted EXCEPT ![Head(packet_buffer).src_ip] = @ - 1]
              ELSE counted
        /\ threat_alerts' = out.alerts
        /\ suspicious_ips' = out.ips
        /\ db' = out.db
        /\ verdict' = <<[packet |-> packet, at |-> now,
                         scan |-> detect_port_scan(buf, packet, now),
                         port |-> detect_suspicious_port(packet),
                         ddos |-> detect_ddos(buf, packet, now),
                         emitted |-> SubSeq(out.alerts, Len(threat_alerts) + 1,
                                            Len(out.alerts))]>>

\* packet_callback from the append on: the record joins the window, the
\* tracker counts it, and the detectors run on the window that holds it.
Ingest(packet) ==
    LET buf == deque_append(packet_buffer, config.PACKET_BUFFER_SIZE, packet)
        out == analyze_packet([alerts |-> threat_alerts, ips |-> suspicious_ips,
                               db |-> db],
                              buf, packet, now)
    IN  /\ packet_buffer' = buf
        /\ connection_tracker' =
              [connection_tracker EXCEPT ![packet.src_ip] = @ + 1]
        /\ threat_alerts' = out.alerts
        /\ suspicious_ips' = out.ips
        /\ db' = out.db
        /\ verdict' = <<[packet |-> packet, at |-> now,
                         scan |-> detect_port_scan(buf, packet, now),
                         port |-> detect_suspicious_port(packet),
                         ddos |-> detect_ddos(buf, packet, now),
                         emitted |-> SubSeq(out.alerts, Len(threat_alerts) + 1,
                                            Len(out.alerts))]>>

\* packet_callback on one captured IP packet.
packet_callback(src, proto, len, dport) ==
    /\ Ingest(NetworkPacket(now, src, proto, len, dport))
    /\ UNCHANGED <<config, is_monitoring, fitted, cycle, fits, capture,
                   analysis, now>>

\* The state __init__ leaves, for a configuration cfg.
Constructed(cfg) ==
    /\ config = cfg
    /\ packet_buffer = <<>>
    /\ connection_tracker = [a \in Addrs |-> 0]
    /\ suspicious_ips = {}
    /\ threat_alerts = <<>>
    /\ is_monitoring = FALSE
    /\ fitted = FALSE
    /\ verdict = <<>>
    /\ cycle = <<>>
    /\ fits = 0
    /\ capture = [l \in Loops |-> [pc |-> "off", packet |-> NoPacket]]
    /\ analysis = [pc |-> "sleep", cycles |-> 0, window |-> <<>>,
                   features |-> <<>>, outliers |-> <<>>, done |-> 0,
                   reads |-> <<>>]
    /\ db = [threats |-> <<>>, failing |-> 0, failed |-> 0]

\* time.time() moves on by d seconds.
Tick(d) ==
    /\ now' = now + d
    /\ UNCHANGED <<config, packet_buffer, connection_tracker, suspicious_ips,
                   threat_alerts, is_monitoring, fitted, verdict, cycle, fits, capture,
                   analysis, db>>

\* The database stops taking writes: the next store_threat_alert that has
\* not failed yet will fail (sqlite3 raises on connect, execute or commit).
database_fails ==
    /\ db' = [db EXCEPT !.failing = @ + 1]
    /\ UNCHANGED <<config, packet_buffer, connection_tracker, suspicious_ips,
                   threat_alerts, is_monitoring, fitted, verdict, cycle, fits,
                   capture, analysis, now>>

\* ---------------------------------------------------------------- queries

\* get_status: the fields that count the engine's state.
get_status ==
    [is_monitoring |-> is_monitoring,
     packets_captured |-> Len(packet_buffer),
     threat_alerts |-> Len(threat_alerts),
     suspicious_ips |-> Cardinality(suspicious_ips)]

\* ORDER BY timestamp DESC: the row with the greatest timestamp first (of
\* rows with one timestamp, the one inserted first).
RECURSIVE order_by_timestamp_desc(_)
order_by_timestamp_desc(rows) ==
    IF rows = <<>> THEN <<>>
    ELSE LET first == CHOOSE i \in DOMAIN rows :
                        /\ \A j \in DOMAIN rows : rows[j].timestamp <= rows[i].timestamp
                        /\ \A j \in 1..(i - 1) : rows[j].timestamp < rows[i].timestamp
             others == [k \in 1..(Len(rows) - 1) |->
                          IF k < first THEN rows[k] ELSE rows[k + 1]]
         IN  <<rows[first]>> \o order_by_timestamp_desc(others)

\* get_recent_alerts(hours) at time t: the rows of the table threats with
\* timestamp > t - hours * 3600, the most recent first.
get_recent_alerts(d, hours, t) ==
    LET cutoff_time == t - (hours * 3600)
    IN  order_by_timestamp_desc(
            SelectSeq(d.threats, LAMBDA row : row.timestamp > cutoff_time))

\* ------------------------------------------------------- the capture loops

\* start_monitoring in thread l, up to the call of sniff: it returns when
\* monitoring is already active, else sets the flag and starts to sniff.
start_monitoring(l) ==
    /\ capture[l].pc = "off"
    /\ IF is_monitoring
       THEN UNCHANGED <<is_monitoring, capture>>
       ELSE /\ is_monitoring' = TRUE
            /\ capture' = [capture EXCEPT ![l].pc = "sniff"]
    /\ UNCHANGED <<config, packet_buffer, connection_tracker, suspicious_ips,
                   threat_alerts, fitted, verdict, cycle, fits, analysis, db, now>>

\* stop_monitoring: clears the flag; the loops are left to notice it.
stop_monitoring ==
    /\ is_monitoring' = FALSE
    /\ UNCHANGED <<config, packet_buffer, connection_tracker, suspicious_ips,
                   threat_alerts, fitted, verdict, cycle, fits, capture, analysis,
                   db, now>>

\* packet_callback in loop l, first half: the record is built and stamped
\* with time.time().
callback_stamp(l, src, proto, len, dport) ==
    /\ capture[l].pc = "sniff"
    /\ capture' = [capture EXCEPT ![l] =
                      [pc |-> "stamped",
                       packet |-> NetworkPacket(now, src, proto, len, dport)]]
    /\ UNCHANGED <<config, packet_buffer, connection_tracker, suspicious_ips,
                   threat_alerts, is_monitoring, fitted, verdict, cycle, fits,
                   analysis, db, now>>

\* packet_callback in loop l on a frame without an IP layer (ARP, say): it
\* returns at once, and sniff goes on to the stop_filter.
callback_not_ip(l) ==
    /\ capture[l].pc = "sniff"
    /\ capture' = [capture EXCEPT ![l].pc = "filter"]
    /\ UNCHANGED <<config, packet_buffer, connection_tracker, suspicious_ips,
                   threat_alerts, is_monitoring, fitted, verdict, cycle, fits,
                   analysis, db, now>>

\* packet_callback in loop l, second half: the append, the tracker and
\* analyze_packet.
callback_ingest(l) ==
    /\ capture[l].pc = "stamped"
    /\ Ingest(capture[l].packet)
    /\ capture' = [capture EXCEPT ![l] = [pc |-> "filter", packet |-> NoPacket]]
    /\ UNCHANGED <<config, is_monitoring, fitted, cycle, fits, analysis, now>>

\* sniff's stop_filter, evaluated after the callback of each packet.
stop_filter(l) ==
    /\ capture[l].pc = "filter"
    /\ capture' = [capture EXCEPT ![l].pc = IF ~is_monitoring THEN "off" ELSE "sniff"]
    /\ UNCHANGED <<config, packet_buffer, connection_tracker, suspicious_ips,
                   threat_alerts, is_monitoring, fitted, verdict, cycle, fits,
                   analysis, db, now>>

\* ------------------------------------------------------- the analysis cycle

Max(a, b) == IF a >= b THEN a ELSE b

RECURSIVE SumLength(_)
SumLength(packets) ==
    IF packets = <<>> THEN 0
    ELSE Head(packets).length + SumLength(Tail(packets))

\* The source addresses of the window in the order a dict first sees them.
GroupKeys(buf) ==
    SelectSeq([i \in 1..Len(buf) |-> i],
              LAMBDA i : \A j \in 1..(i - 1) : buf[j].src_ip # buf[i].src_ip)

\* ip_groups[ip] of extract_features.
ip_group(buf, ip) == SelectSeq(buf, LAMBDA p : p.src_ip = ip)

\* The four features of one group; a quotient is kept as <<dividend, divisor>>.
feature_vector(packets) ==
    LET stamps == {packets[i].timestamp : i \in DOMAIN packets}
        newest == CHOOSE t \in stamps : \A u \in stamps : u <= t
        oldest == CHOOSE t \in stamps : \A u \in stamps : t <= u
    IN  <<  <<Len(packets), Max(1, newest - oldest)>>,
            <<SumLength(packets), Len(packets)>>,
            Cardinality({packets[i].dst_port :
                            i \in {j \in DOMAIN packets : Truthy(packets[j].dst_port)}}),
            Cardinality({packets[i].protocol : i \in DOMAIN packets})  >>

\* extract_features keeping only the groups of more than 5 packets.
extract_features_strict(buf) ==
    LET keys == GroupKeys(buf)
        kept == SelectSeq(keys, LAMBDA i :
                    Len(ip_group(buf, buf[i].src_ip)) > MIN_GROUP_SIZE)
    IN  [k \in 1..Len(kept) |->
            [ip |-> buf[kept[k]].src_ip,
             vector |-> feature_vector(ip_group(buf, buf[kept[k]].src_ip))]]

\* extract_features: one vector for each group of at least 5 packets, in the
\* order of the groups.  `ip` is the loop variable the vector was computed
\* under; the list the code returns holds the vectors alone.
extract_features(buf) ==
    LET keys == GroupKeys(buf)
        kept == SelectSeq(keys, LAMBDA i :
                    Len(ip_group(buf, buf[i].src_ip)) >= MIN_GROUP_SIZE)
    IN  [k \in 1..Len(kept) |->
            [ip |-> buf[kept[k]].src_ip,
             vector |-> feature_vector(ip_group(buf, buf[kept[k]].src_ip))]]

\* The record ml_analysis takes for the i-th vector (i from 1) of n:
\* list(self.packet_buffer)[-(len(features) - i)] with i from 0.
anomaly_packet(buf, n, i) == buf[Len(buf) - (n - (i - 1)) + 1]

\* The alerts of a scoring pass: one for each outlier, in the order of the
\* vectors.  outliers maps the index of a vector predict returned -1 for to
\* the score decision_function gave it.
RECURSIVE anomaly_alerts(_, _, _, _, _, _)
anomaly_alerts(st, buf, n, i, outliers, t) ==
    IF i > n THEN st
    ELSE IF i \in DOMAIN outliers
    THEN anomaly_alerts(
            create_threat_alert(st, "ANOMALY", "MEDIUM",
                                anomaly_packet(buf, n, i).src_ip,
                                IF outliers[i] < 0 THEN -outliers[i] ELSE outliers[i],
                                t),
            buf, n, i + 1, outliers, t)
    ELSE anomaly_alerts(st, buf, n, i + 1, outliers, t)

\* predict may flag any of the first OutlierSpan vectors of a pass as
\* outliers; an outlier's score, in tenths, is one of AnomalyScores.
OutlierSpan == 1
AnomalyScores == {-1, -3}

\* What predict and decision_function may return on n vectors: the model is
\* a library's isolation forest, any vector may be an outlier.
Predictions(n) ==
    UNION {[S -> AnomalyScores] : S \in SUBSET (1..(IF n < OutlierSpan THEN n ELSE OutlierSpan))}

\* The guard of continuous_analysis: len(self.packet_buffer) > 100.
enough_packets(buf) == Len(buf) > ANALYSIS_MIN_BUFFER

\* The guard of ml_analysis off by one: exactly 10 vectors are too few.
enough_features_strict(n) == n > MIN_FEATURES

\* The guard of ml_analysis, negated: not len(features) < 10.
enough_features(n) == ~(n < MIN_FEATURES)

\* A model that is fitted on every pass.
needs_fit_always(isfitted) == TRUE

\* not hasattr(self.ml_model, 'offset_'): the model has not been fitted.
needs_fit(isfitted) == ~isfitted

\* One pass of the loop of continuous_analysis, after its sleep: ml_analysis
\* runs when the window holds more than 100 records.
continuous_analysis ==
    LET buf == packet_buffer
        features == extract_features(buf)
        n == Len(features)
        st == [alerts |-> threat_alerts, ips |-> suspicious_ips, db |-> db]
        seen == [window |-> buf, features |-> features, was_fitted |-> fitted]
    IN  /\ IF enough_packets(buf)
           THEN IF ~enough_features(n)
                THEN /\ cycle' = <<seen @@ [did |-> "return", outliers |-> <<>>,
                                           emitted |-> <<>>]>>
                     /\ UNCHANGED <<threat_alerts, suspicious_ips, db, fitted, fits>>
                ELSE IF needs_fit(fitted)
                THEN /\ fitted' = TRUE
                     /\ fits' = fits + 1
                     /\ cycle' = <<seen @@ [did |-> "fit", outliers |-> <<>>,
                                           emitted |-> <<>>]>>
                     /\ UNCHANGED <<threat_alerts, suspicious_ips, db>>
                ELSE \E outliers \in Predictions(n) :
                        LET out == anomaly_alerts(st, buf, n, 1, outliers, now)
                        IN  /\ threat_alerts' = out.alerts
                            /\ suspicious_ips' = out.ips
                            /\ db' = out.db
                            /\ cycle' = <<seen @@
                                  [did |-> "score", outliers |-> outliers,
                                   emitted |-> SubSeq(out.alerts, Len(threat_alerts) + 1,
                                                      Len(out.alerts))]>>
                            /\ UNCHANGED <<fitted, fits>>
           ELSE /\ cycle' = <<seen @@ [did |-> "skip", outliers |-> <<>>,
                                      emitted |-> <<>>]>>
                /\ UNCHANGED <<threat_alerts, suspicious_ips, db, fitted, fits>>
        /\ UNCHANGED <<config, packet_buffer, connection_tracker, is_monitoring,
                       verdict, capture, analysis, now>>

\* ------------------------------------------ the analysis thread, by steps
\* The thread of continuous_analysis runs beside the capture loops.  Its
\* steps are cut where it reads the window or writes the alert state.

\* The outliers of a scoring pass that have no alert yet, lowest index first.
pending_outliers(a) ==
    SelectSeq([i \in 1..Len(a.features) |-> i],
              LAMBDA i : i \in DOMAIN a.outliers /\ i > a.done)

\* The sleep ends: the length check of continuous_analysis, and with more
\* than 100 records ml_analysis enters extract_features, whose loop starts
\* to iterate the deque.
analysis_wake ==
    /\ analysis.pc = "sleep"
    /\ analysis' = [pc |-> IF enough_packets(packet_buffer) THEN "extract" ELSE "sleep",
                    cycles |-> analysis.cycles + 1,
                    window |-> packet_buffer,
                    features |-> <<>>, outliers |-> <<>>, done |-> 0,
                    reads |-> <<>>]
    /\ UNCHANGED <<config, packet_buffer, connection_tracker, suspicious_ips,
                   threat_alerts, is_monitoring, fitted, verdict, cycle, fits,
                   capture, db, now>>

\* extract_features ends and ml_analysis goes on to the scaler and the
\* model.  A deque that was appended to while it was iterated raises
\* RuntimeError, which ml_analysis catches and logs; the pass is over.
\* With fewer than 10 vectors the pass returns, a model without offset_ is
\* fitted, and a fitted model scores the vectors.
analysis_extract ==
    /\ analysis.pc = "extract"
    /\ LET features == extract_features(analysis.window)
           n == Len(features)
       IN  IF packet_buffer # analysis.window \/ ~enough_features(n)
           THEN /\ analysis' = [analysis EXCEPT !.pc = "sleep"]
                /\ UNCHANGED <<fitted, fits>>
           ELSE IF needs_fit(fitted)
           THEN /\ fitted' = TRUE
                /\ fits' = fits + 1
                /\ analysis' = [analysis EXCEPT !.pc = "sleep", !.features = features]
           ELSE /\ \E outliers \in Predictions(n) :
                      analysis' = [analysis EXCEPT
                                      !.pc = IF outliers = <<>> THEN "sleep" ELSE "alerts",
                                      !.features = features,
                                      !.outliers = outliers]
                /\ UNCHANGED <<fitted, fits>>
    /\ UNCHANGED <<config, packet_buffer, connection_tracker, suspicious_ips,
                   threat_alerts, is_monitoring, verdict, cycle,
                   capture, db, now>>

\* The loop over the predictions reaches the next outlier: the window is
\* read again, list(self.packet_buffer), the record at -(len(features) - i)
\* names the source, and the alert is created.
analysis_alert ==
    /\ analysis.pc = "alerts"
    /\ LET todo == pending_outliers(analysis)
           i == Head(todo)
           buf == packet_buffer
           out == create_threat_alert(
                      [alerts |-> threat_alerts, ips |-> suspicious_ips, db |-> db],
                      "ANOMALY", "MEDIUM",
                      anomaly_packet(buf, Len(analysis.features), i).src_ip,
                      IF analysis.outliers[i] < 0 THEN -analysis.outliers[i]
                                                  ELSE analysis.outliers[i],
                      now)
       IN  /\ threat_alerts' = out.alerts
           /\ suspicious_ips' = out.ips
           /\ db' = out.db
           /\ analysis' = [analysis EXCEPT
                              !.pc = IF Len(todo) = 1 THEN "sleep" ELSE "alerts",
                              !.done = i,
                              !.reads = Append(@, buf)]
    /\ UNCHANGED <<config, packet_buffer, connection_tracker, is_monitoring,
                   fitted, verdict, cycle, fits, capture, now>>

\* ------------------------------------------------- the environment: a scan
\* Host A probes the ports 1, 2, 3, ... in order.  At most MaxScanDev times
\* the environment deviates: A repeats port 1, A sends a packet without a
\* port (ICMP) or to port 0, host B sends one packet, the clock moves on, or
\* the database fails on its next write.
\* It deviates at the start of the scan (A has probed at most ScanHead
\* ports) or around the detector's threshold (at least ScanTail ports).

MaxScan == 25
MaxScanDev == 2
ScanHead == 1
ScanTail == 19
ScanTickStep == 30
ScanBuffer == 40

ScanDeviates ==
    /\ net.dev < MaxScanDev
    /\ net.main <= ScanHead \/ net.main >= ScanTail
    /\ net' = [net EXCEPT !.dev = @ + 1]

InitScan ==
    /\ Constructed([PACKET_BUFFER_SIZE |-> ScanBuffer])
    /\ now = 0
    /\ net = [main |-> 0, dev |-> 0, req |-> 0]

ScanProbe ==
    /\ net.main < MaxScan
    /\ net' = [net EXCEPT !.main = @ + 1]
    /\ packet_callback("A", "TCP", 60, net.main + 1)

ScanRepeat ==
    /\ ScanDeviates
    /\ packet_callback("A", "TCP", 60, 1)

ScanNoPort ==
    /\ ScanDeviates
    /\ \/ packet_callback("A", "ICMP", 84, None)
       \/ packet_callback("A", "UDP", 60, 0)

ScanOther ==
    /\ ScanDeviates
    /\ packet_callback("B", "TCP", 60, 80)

ScanTick ==
    /\ ScanDeviates
    /\ Tick(ScanTickStep)

ScanDbFails ==
    /\ ScanDeviates
    /\ database_fails

NextScan ==
    \/ ScanProbe \/ ScanRepeat \/ ScanNoPort \/ ScanOther \/ ScanTick
    \/ ScanDbFails

SpecScan == InitScan /\ [][NextScan]_vars

\* ------------------------------------------------ the environment: a flood
\* Host B sends a burst, its destination ports rotating over 1..22 from port
\* 10 on (the 101st packet goes to port 22).  At most
\* MaxFloodDev times the environment deviates: host C sends one packet, or
\* the clock moves on.  It deviates at the start of the burst (B has sent at
\* most FloodHead packets) or around the detector's threshold (at least
\* FloodTail packets).

MaxFlood == 103
MaxFloodDev == 2
FloodHead == 1
FloodTail == 99
FloodTickStep == 5
FloodBuffer == 110

FloodDeviates ==
    /\ net.dev < MaxFloodDev
    /\ net.main <= FloodHead \/ net.main >= FloodTail
    /\ net' = [net EXCEPT !.dev = @ + 1]

FloodPort(k) == 1 + ((k + 9) % 22)

InitFlood ==
    /\ Constructed([PACKET_BUFFER_SIZE |-> FloodBuffer])
    /\ now = 0
    /\ net = [main |-> 0, dev |-> 0, req |-> 0]

FloodPacket ==
    /\ net.main < MaxFlood
    /\ net' = [net EXCEPT !.main = @ + 1]
    /\ packet_callback("B", "TCP", 64, FloodPort(net.main))

FloodOther ==
    /\ FloodDeviates
    /\ \/ packet_callback("C", "TCP", 64, 3389)
       \/ packet_callback("C", "TCP", 64, 80)
       \/ packet_callback("C", "ICMP", 84, None)

FloodTick ==
    /\ FloodDeviates
    /\ Tick(FloodTickStep)

NextFlood == FloodPacket \/ FloodOther \/ FloodTick

SpecFlood == InitFlood /\ [][NextFlood]_vars

\* ------------------------- the environment: a flood on a configured engine
\* The same traffic reaches an engine constructed with a configuration that
\* sets the detectors' windows and thresholds beside the keys of CONFIG the
\* engine reads.

Configured ==
    [PACKET_BUFFER_SIZE |-> FloodBuffer,
     DDOS_WINDOW |-> 5, DDOS_THRESHOLD |-> 5,
     PORT_SCAN_WINDOW |-> 30, PORT_SCAN_THRESHOLD |-> 10]

InitConfigured ==
    /\ Constructed(Configured)
    /\ now = 0
    /\ net = [main |-> 0, dev |-> 0, req |-> 0]

SpecConfigured == InitConfigured /\ [][NextFlood]_vars

\* ------------------------------------------ the environment: live capture
\* Monitoring is started and stopped at will; every running capture loop
\* receives packets of A and B.  The network sends at most MaxCaptured
\* packets, the control surface issues at most MaxRequests requests and the
\* clock moves at most MaxCaptureTicks times.

MaxCaptured == 4
MaxRequests == 3
MaxCaptureTicks == 2
CaptureTickStep == 5
CaptureBuffer == 2

InitCapture ==
    /\ Constructed([PACKET_BUFFER_SIZE |-> CaptureBuffer])
    /\ now = 0
    /\ net = [main |-> 0, dev |-> 0, req |-> 0]

CaptureStart ==
    /\ net.req < MaxRequests
    /\ net' = [net EXCEPT !.req = @ + 1]
    /\ \E l \in Loops : start_monitoring(l)

CaptureStop ==
    /\ net.req < MaxRequests
    /\ net' = [net EXCEPT !.req = @ + 1]
    /\ stop_monitoring

CapturePacket ==
    /\ net.main < MaxCaptured
    /\ net' = [net EXCEPT !.main = @ + 1]
    /\ \E l \in Loops, src \in {"A", "B"} : callback_stamp(l, src, "TCP", 60, 80)

CaptureCallback ==
    /\ \E l \in Loops : callback_ingest(l)
    /\ UNCHANGED net

CaptureFilter ==
    /\ \E l \in Loops : stop_filter(l)
    /\ UNCHANGED net

CaptureTick ==
    /\ net.dev < MaxCaptureTicks
    /\ net' = [net EXCEPT !.dev = @ + 1]
    /\ Tick(CaptureTickStep)

NextCapture ==
    \/ CaptureStart \/ CaptureStop \/ CapturePacket
    \/ CaptureCallback \/ CaptureFilter \/ CaptureTick

SpecCapture == InitCapture /\ [][NextCapture]_vars

\* ------------------------------- the environment: capture that never ends
\* The same requests, packets and clock, and beside them frames without an
\* IP layer, which never run out.  Every running capture loop goes on
\* receiving: a loop that waits in sniff gets a frame, a callback that has
\* built its record finishes, and sniff evaluates the stop_filter after it.

SniffFrame ==
    /\ \E l \in Loops : callback_not_ip(l)
    /\ UNCHANGED net

NextSniff == NextCapture \/ SniffFrame

SniffFairness ==
    \A l \in Loops :
        /\ WF_vars(callback_not_ip(l) /\ UNCHANGED net)
        /\ WF_vars(callback_ingest(l) /\ UNCHANGED net)
        /\ WF_vars(stop_filter(l) /\ UNCHANGED net)

SpecSniff == InitCapture /\ [][NextSniff]_vars /\ SniffFairness

\* ------------------------------------- the environment: many hosts at once
\* net.hosts hosts send in turn, one packet each, until MlRound packets are
\* sent; then, while the analysis has a cycle left to run, the first host
\* alone goes on sending, and its burst pushes the records of the others out
\* of the window.  The analysis cycle runs at most
\* MaxCycles times: on an almost empty window (at most MlHead packets sent),
\* around the 100 records a cycle needs (MlTail to MlRound packets sent) or
\* late in the burst (at least MlLate packets sent), when a host is down to
\* 5 records and less.  net.hosts is around the 10 vectors a cycle needs.

MaxMl == 157
MaxCycles == 2
MlHead == 1
MlTail == 99
MlRound == 103
MlLate == 155
MlHosts == 10
MlBuffer == 102

InitMl ==
    /\ Constructed([PACKET_BUFFER_SIZE |-> MlBuffer])
    /\ now = 0
    /\ \E h \in {MlHosts - 1, MlHosts} :
          net = [main |-> 0, dev |-> 0, req |-> 0, hosts |-> h]

\* The host that sends the packet after k packets.
MlSender(k) ==
    IF k < MlRound THEN HostNames[(k % net.hosts) + 1] ELSE HostNames[1]

MlPacket ==
    /\ net.main < MaxMl
    /\ net.main < MlRound \/ net.dev < MaxCycles
    /\ net' = [net EXCEPT !.main = @ + 1]
    /\ packet_callback(MlSender(net.main), "TCP", 100, 80)

MlCycle ==
    /\ net.dev < MaxCycles
    /\ \/ net.main <= MlHead
       \/ net.main >= MlTail /\ net.main <= MlRound
       \/ net.main >= MlLate
    /\ net' = [net EXCEPT !.dev = @ + 1]
    /\ continuous_analysis

NextMl == MlPacket \/ MlCycle

SpecMl == InitMl /\ [][NextMl]_vars

\* ---------------------------------- the environment: alerts over the hours
\* Hosts A and B send packets to a sensitive port (each emits an alert) or to
\* port 80, MaxQueryPackets in all; the clock moves on by QueryTickStep
\* seconds at most MaxQueryTicks times and the database fails on a write at
\* most MaxQueryFails times.  Alerts are queried for the last 0..MaxHours
\* hours.

MaxQueryPackets == 3
MaxQueryTicks == 3
MaxQueryFails == 1
QueryTickStep == 1800
QueryBuffer == 3
MaxHours == 1

InitQuery ==
    /\ Constructed([PACKET_BUFFER_SIZE |-> QueryBuffer])
    /\ now = 0
    /\ net = [main |-> 0, dev |-> 0, req |-> 0]

QueryPacket ==
    /\ net.main < MaxQueryPackets
    /\ net' = [net EXCEPT !.main = @ + 1]
    /\ \E src \in {"A", "B"}, dport \in {3389, 80} :
          packet_callback(src, "TCP", 60, dport)

QueryTick ==
    /\ net.dev < MaxQueryTicks
    /\ net' = [net EXCEPT !.dev = @ + 1]
    /\ Tick(QueryTickStep)

QueryDbFails ==
    /\ net.req < MaxQueryFails
    /\ net' = [net EXCEPT !.req = @ + 1]
    /\ database_fails

NextQuery == QueryPacket \/ QueryTick \/ QueryDbFails

SpecQuery == InitQuery /\ [][NextQuery]_vars

\* ------------------------- the environment: capture and analysis together
\* One capture loop is started before the first packet and stopped later,
\* while MlHosts hosts send in turn, MlRound packets in all, and the analysis
\* thread wakes at most MaxCycles times.  The stop requests and the wake-ups
\* come around the 100 records ml_analysis needs (at least ThreadsTail
\* packets sent); a stop request comes while monitoring is active.

ThreadsTail == 101

ThreadsZone == net.main >= ThreadsTail

InitThreads ==
    /\ Constructed([PACKET_BUFFER_SIZE |-> MlBuffer])
    /\ now = 0
    /\ net = [main |-> 0, dev |-> 0, req |-> 0, hosts |-> MlHosts]

ThreadsStart ==
    /\ net.req < MaxRequests
    /\ net.main = 0
    /\ net' = [net EXCEPT !.req = @ + 1]
    /\ start_monitoring(1)

ThreadsStop ==
    /\ net.req < MaxRequests
    /\ ThreadsZone
    /\ is_monitoring
    /\ net' = [net EXCEPT !.req = @ + 1]
    /\ stop_monitoring

ThreadsPacket ==
    /\ net.main < MlRound
    /\ net' = [net EXCEPT !.main = @ + 1]
    /\ callback_stamp(1, MlSender(net.main), "TCP", 100, 80)

ThreadsCallback ==
    /\ callback_ingest(1)
    /\ UNCHANGED net

ThreadsFilter ==
    /\ stop_filter(1)
    /\ UNCHANGED net

ThreadsWake ==
    /\ analysis.cycles < MaxCycles
    /\ ThreadsZone
    /\ analysis_wake
    /\ UNCHANGED net

ThreadsExtract ==
    /\ analysis_extract
    /\ UNCHANGED net

ThreadsAlert ==
    /\ analysis_alert
    /\ UNCHANGED net

NextThreads ==
    \/ ThreadsStart \/ ThreadsStop
    \/ ThreadsPacket \/ ThreadsCallback \/ ThreadsFilter
    \/ ThreadsWake \/ ThreadsExtract \/ ThreadsAlert

SpecThreads == InitThreads /\ [][NextThreads]_vars

\* ================================================================ the claims

\* The latest analyze_packet.
V == verdict[1]

\* The records of the window sent by src whose age at time t is below w.
Within(src, t, w) ==
    {r \in {packet_buffer[i] : i \in DOMAIN packet_buffer} :
        r.src_ip = src /\ t - r.timestamp < w}

\* How many records of the window were sent by src and are younger than w.
CountWithin(src, t, w) ==
    Cardinality({i \in DOMAIN packet_buffer :
                    /\ packet_buffer[i].src_ip = src
                    /\ t - packet_buffer[i].timestamp < w})

\* How many alerts of a kind a list holds.
NumAlerts(alerts, kind) ==
    Cardinality({i \in DOMAIN alerts : alerts[i].threat_type = kind})

\* ---- C1
\* The destination ports carried by src's records younger than 60s.
PortsCarried(src, t) == {r.dst_port : r \in Within(src, t, 60)} \ {None}

\* C1 as stated: for every just-ingested packet, one without a destination
\* port included, detect_port_scan fires iff its source has more than 20
\* distinct destination ports among the window records younger than 60s
\* (port 0 is not counted as a port here, which favours the claim).
C1_ScanIffOriginal ==
    verdict # <<>> =>
        (V.scan <=> Cardinality(PortsCarried(V.packet.src_ip, V.at) \ {0}) > 20)

\* C1 amended: detect_port_scan fires iff the packet carries a destination
\* port other than 0 and its source has more than 20 distinct non-zero
\* destination ports among the window records younger than 60s; a packet
\* without a destination port (or to port 0) never fires.
C1_ScanIff ==
    verdict # <<>> =>
        (V.scan <=> /\ V.packet.dst_port \notin {None, 0}
                    /\ Cardinality(PortsCarried(V.packet.src_ip, V.at) \ {0}) > 20)

\* C1's case: the detector fired on exactly 21 distinct ports while the window
\* also holds a record of that source aged 60s or more.
C1_Witness ==
    /\ verdict # <<>>
    /\ V.scan
    /\ Cardinality(PortsCarried(V.packet.src_ip, V.at) \ {0}) = 21
    /\ \E i \in DOMAIN packet_buffer :
          /\ packet_buffer[i].src_ip = V.packet.src_ip
          /\ V.at - packet_buffer[i].timestamp >= 60

\* ---- C2
\* The window is a burst of k packets of B, all younger than 10s.
FloodBurst(k) ==
    /\ Len(packet_buffer) = k
    /\ connection_tracker["B"] = k
    /\ \A i \in DOMAIN packet_buffer :
          /\ packet_buffer[i].src_ip = "B"
          /\ now - packet_buffer[i].timestamp < 10

\* C2: a DDOS alert is emitted for a just-ingested packet iff more than 100
\* window records (the packet included) have its source and an age below 10s;
\* in a burst of one source within 10s no DDOS alert is emitted for the
\* packets 1..100 and one, CRITICAL with confidence 0.9, for the 101st.
C2_FloodIff ==
    /\ verdict # <<>> =>
          ((\E i \in DOMAIN V.emitted : V.emitted[i].threat_type = "DDOS")
              <=> CountWithin(V.packet.src_ip, V.at, 10) > 100)
    /\ \A k \in 0..100 : FloodBurst(k) => NumAlerts(threat_alerts, "DDOS") = 0
    /\ FloodBurst(101) =>
          /\ NumAlerts(threat_alerts, "DDOS") = 1
          /\ NumAlerts(V.emitted, "DDOS") = 1
          /\ \A i \in DOMAIN threat_alerts :
                threat_alerts[i].threat_type = "DDOS" =>
                   /\ threat_alerts[i].severity = "CRITICAL"
                   /\ threat_alerts[i].confidence = 9
                   /\ threat_alerts[i].source_ip = "B"

\* C2's case: the 101st packet of a burst has just been processed.
C2_Witness ==
    /\ FloodBurst(101)
    /\ verdict # <<>>
    /\ V.ddos
    /\ CountWithin("B", V.at, 10) = 101

\* ---- C3
SensitivePorts == {22, 23, 135, 139, 445, 1433, 3389, 5432, 5900, 6379}

\* C3: detect_suspicious_port fires iff the packet's destination port is one
\* of the ten sensitive ports, for the packet just ingested and for every
\* record of the window at whatever age it has and whatever the window holds.
C3_SensitivePortIff ==
    /\ verdict # <<>> => (V.port <=> V.packet.dst_port \in SensitivePorts)
    /\ \A i \in DOMAIN packet_buffer :
          detect_suspicious_port(packet_buffer[i])
             <=> packet_buffer[i].dst_port \in SensitivePorts
    /\ \A i \in DOMAIN packet_buffer :
          packet_buffer[i].dst_port = None => ~detect_suspicious_port(packet_buffer[i])

\* C3's case: the window holds a packet to port 3389, one to port 22, one
\* without a port and one to another port, and the detector fired last on a
\* sensitive port.
C3_Witness ==
    /\ verdict # <<>>
    /\ V.port
    /\ \A p \in {3389, 22, 21} :
          \E i \in DOMAIN packet_buffer : packet_buffer[i].dst_port = p

\* ---- C4
\* The alert a rule detector's firing must produce.
RuleAlert(kind, sev, conf) ==
    [timestamp |-> V.at, threat_type |-> kind, severity |-> sev,
     source_ip |-> V.packet.src_ip, description |-> <<kind, V.packet.src_ip>>,
     confidence |-> conf]

Pairing(a) ==
    CASE a.threat_type = "PORT_SCAN" -> a.severity = "HIGH" /\ a.confidence = 8
      [] a.threat_type = "SUSPICIOUS_PORT" -> a.severity = "MEDIUM" /\ a.confidence = 6
      [] a.threat_type = "DDOS" -> a.severity = "CRITICAL" /\ a.confidence = 9
      [] OTHER -> TRUE

\* C4: every firing of a rule detector on an ingested packet emits exactly one
\* alert, with the packet's source and the fixed pairing HIGH/0.8, MEDIUM/0.6,
\* CRITICAL/0.9; a detector that does not fire emits none; no rule alert with
\* another pairing is ever in the alert list.
C4_OneAlertPerFiring ==
    /\ verdict # <<>> =>
          /\ NumAlerts(V.emitted, "PORT_SCAN") = (IF V.scan THEN 1 ELSE 0)
          /\ NumAlerts(V.emitted, "SUSPICIOUS_PORT") = (IF V.port THEN 1 ELSE 0)
          /\ NumAlerts(V.emitted, "DDOS") = (IF V.ddos THEN 1 ELSE 0)
          /\ \A i \in DOMAIN V.emitted :
                V.emitted[i] \in {RuleAlert("PORT_SCAN", "HIGH", 8),
                                  RuleAlert("SUSPICIOUS_PORT", "MEDIUM", 6),
                                  RuleAlert("DDOS", "CRITICAL", 9)}
          /\ Len(threat_alerts) >= Len(V.emitted)
          /\ SubSeq(threat_alerts, Len(threat_alerts) - Len(V.emitted) + 1,
                    Len(threat_alerts)) = V.emitted
    /\ \A i \in DOMAIN threat_alerts : Pairing(threat_alerts[i])

\* C4's case: one packet on which all three detectors fired.
C4_Witness ==
    /\ verdict # <<>>
    /\ V.scan /\ V.port /\ V.ddos
    /\ Len(V.emitted) = 3

\* ---- C5
\* The window is the scan scenario after k packets: A's packets to the ports
\* 1..k, in order, all younger than 60s.
ScanScenario(k) ==
    /\ Len(packet_buffer) = k
    /\ connection_tracker["A"] = k
    /\ \A i \in DOMAIN packet_buffer :
          /\ packet_buffer[i].src_ip = "A"
          /\ packet_buffer[i].protocol = "TCP"
          /\ packet_buffer[i].dst_port = i
          /\ now - packet_buffer[i].timestamp < 60

\* C5 as stated: the 25 packets of the scan scenario yield exactly one
\* PORT_SCAN alert in total.
C5_ScanScenarioOriginal ==
    ScanScenario(25) => NumAlerts(threat_alerts, "PORT_SCAN") = 1

\* C5 amended: in the scan scenario no PORT_SCAN alert is emitted while the
\* packets to the ports 1..20 are processed, one (HIGH, 0.8, source A) is
\* emitted when the 21st is processed, and one more for each later packet:
\* after k packets the list holds max(0, k - 20) PORT_SCAN alerts, five after
\* all 25.
C5_ScanScenario ==
    \A k \in 0..MaxScan :
        ScanScenario(k) =>
           /\ NumAlerts(threat_alerts, "PORT_SCAN") = (IF k <= 20 THEN 0 ELSE k - 20)
           /\ k >= 1 => NumAlerts(V.emitted, "PORT_SCAN") = (IF k <= 20 THEN 0 ELSE 1)
           /\ \A i \in DOMAIN threat_alerts :
                 threat_alerts[i].threat_type = "PORT_SCAN" =>
                    /\ threat_alerts[i].severity = "HIGH"
                    /\ threat_alerts[i].confidence = 8
                    /\ threat_alerts[i].source_ip = "A"

\* C5's case: the whole scenario has run.
C5_Witness ==
    /\ ScanScenario(25)
    /\ NumAlerts(threat_alerts, "PORT_SCAN") = 5

\* ---- C6
\* How many alerts the list holds about C.
AlertsAboutC ==
    Cardinality({i \in DOMAIN threat_alerts : threat_alerts[i].source_ip = "C"})

\* C6: the only packet C has sent, to port 3389, emits exactly one alert, a
\* SUSPICIOUS_PORT alert MEDIUM/0.6 with source C, and no alert of another
\* kind, whatever the window holds of other addresses.
C6_SinglePacket3389 ==
    (/\ verdict # <<>>
     /\ V.packet.src_ip = "C"
     /\ V.packet.dst_port = 3389
     /\ connection_tracker["C"] = 1)
    => /\ Len(V.emitted) = 1
       /\ V.emitted[1].threat_type = "SUSPICIOUS_PORT"
       /\ V.emitted[1].severity = "MEDIUM"
       /\ V.emitted[1].confidence = 6
       /\ V.emitted[1].source_ip = "C"
       /\ AlertsAboutC = 1

\* C6's case: C's single packet to 3389 arrives while the window holds more
\* than 100 packets of B younger than 10s.
C6_Witness ==
    /\ verdict # <<>>
    /\ V.packet.src_ip = "C"
    /\ V.packet.dst_port = 3389
    /\ connection_tracker["C"] = 1
    /\ CountWithin("B", V.at, 10) > 100

\* ---- C7
MinTimestamp(buf) ==
    CHOOSE t \in {buf[i].timestamp : i \in DOMAIN buf} :
        \A i \in DOMAIN buf : t <= buf[i].timestamp

\* C7: the window never holds more than its capacity; when it holds exactly
\* its capacity, ingesting one more record leaves its size unchanged and
\* removes exactly one record, the one with the smallest timestamp, while the
\* new record becomes the newest.
C7_EvictsOldest ==
    [][(Len(packet_buffer) = config.PACKET_BUFFER_SIZE /\ connection_tracker' # connection_tracker)
          => /\ Len(packet_buffer') = config.PACKET_BUFFER_SIZE
             /\ Tail(packet_buffer) = SubSeq(packet_buffer', 1, Len(packet_buffer') - 1)
             /\ Head(packet_buffer).timestamp = MinTimestamp(packet_buffer)
             /\ \A i \in DOMAIN packet_buffer' :
                   packet_buffer'[i].timestamp
                      <= packet_buffer'[Len(packet_buffer')].timestamp]_vars

\* C7, the bound alone: the window never holds more than its capacity.
C7_Bounded == Len(packet_buffer) <= config.PACKET_BUFFER_SIZE

\* ---- C8
\* The latest analysis cycle.
K == cycle[1]

\* How many source addresses have at least 5 records in a window.
NumVectors(window) ==
    Cardinality({a \in Addrs :
        Cardinality({i \in DOMAIN window : window[i].src_ip = a}) >= 5})

\* C8 as stated, its first part: the scorer is UNTRAINED only until the first
\* analysis cycle whose window yields at least 10 feature vectors; that cycle
\* fits the model.
C8_TrainingOriginal ==
    (cycle # <<>> /\ NumVectors(K.window) >= 10) => fitted

\* C8 amended: the scorer is UNTRAINED until the first analysis cycle whose
\* window holds more than 100 records and yields at least 10 feature vectors;
\* that cycle fits the model and emits no alert; a later cycle with more than
\* 100 records and at least 10 vectors is scored and emits only ANOMALY
\* alerts; any other cycle changes nothing; no ANOMALY alert exists while the
\* scorer is UNTRAINED.
C8_Training ==
    /\ ~fitted => NumAlerts(threat_alerts, "ANOMALY") = 0
    /\ cycle # <<>> =>
          LET qualifies == Len(K.window) > 100 /\ NumVectors(K.window) >= 10
          IN  /\ (qualifies /\ ~K.was_fitted) =>
                    (fitted /\ K.did = "fit" /\ K.emitted = <<>>)
              /\ (qualifies /\ K.was_fitted) =>
                    (/\ fitted
                     /\ K.did = "score"
                     /\ \A i \in DOMAIN K.emitted :
                           K.emitted[i].threat_type = "ANOMALY")
              /\ ~qualifies =>
                    (fitted = K.was_fitted /\ K.did \in {"skip", "return"}
                     /\ K.emitted = <<>>)

\* C8's case: after the fitting cycle, a scoring cycle emitted an ANOMALY alert.
C8_Witness ==
    /\ cycle # <<>>
    /\ K.was_fitted
    /\ K.did = "score"
    /\ Len(K.emitted) >= 1
    /\ NumAlerts(threat_alerts, "ANOMALY") >= 1

\* ---- C9
\* C9: the model is fitted at most once; once fitted the scorer stays TRAINED:
\* a cycle that finds it TRAINED leaves it TRAINED and does not fit.
C9_FitOnce ==
    /\ fits <= 1
    /\ fitted <=> fits = 1
    /\ (cycle # <<>> /\ K.was_fitted) => (fitted /\ K.did # "fit")

\* C9's case: a cycle ran on the TRAINED scorer and packets were ingested
\* after it.
C9_Witness ==
    /\ cycle # <<>>
    /\ K.was_fitted
    /\ K.did = "score"
    /\ fitted
    /\ packet_buffer # K.window

\* ---- C10
\* The indices of the outlier vectors of the latest cycle, in order.
OutlierSeq ==
    SelectSeq([i \in 1..Len(K.features) |-> i], LAMBDA i : i \in DOMAIN K.outliers)

\* C10: in a scoring cycle every outlier vector gets exactly one alert, of
\* kind ANOMALY and severity MEDIUM, whose source address is the source of
\* the group the vector was computed from; an inlier gets none.
C10_Attribution ==
    (cycle # <<>> /\ K.did = "score") =>
        /\ Len(K.emitted) = Len(OutlierSeq)
        /\ \A k \in DOMAIN K.emitted :
              /\ K.emitted[k].threat_type = "ANOMALY"
              /\ K.emitted[k].severity = "MEDIUM"
              /\ K.emitted[k].source_ip = K.features[OutlierSeq[k]].ip

\* ---- C11
\* How many records of a window have the source a.
RecordsOf(window, a) == Cardinality({i \in DOMAIN window : window[i].src_ip = a})

\* C11: extract_features yields exactly one vector for each source address
\* with at least 5 records in the window and none for a source with fewer;
\* a cycle whose extraction yields fewer than 10 vectors does not fit, does
\* not score, emits no alert and leaves the scorer as it found it.
C11_FeatureThresholds ==
    /\ LET features == extract_features(packet_buffer)
       IN  /\ \A a \in Addrs :
                 Cardinality({k \in DOMAIN features : features[k].ip = a})
                    = (IF RecordsOf(packet_buffer, a) >= 5 THEN 1 ELSE 0)
           /\ \A k \in DOMAIN features :
                 features[k].vector[1][1] = RecordsOf(packet_buffer, features[k].ip)
    /\ (cycle # <<>> /\ NumVectors(K.window) < 10) =>
          /\ Len(K.features) < 10
          /\ K.did \in {"skip", "return"}
          /\ K.emitted = <<>>
          /\ K.outliers = <<>>
          /\ fitted = K.was_fitted
          /\ fits = (IF K.was_fitted THEN 1 ELSE 0)

\* C11's case: a cycle found the scorer TRAINED and a window of more than
\* 100 records in which a source with fewer than 5 records left fewer than
\* 10 vectors.
C11_Witness ==
    /\ cycle # <<>>
    /\ K.was_fitted
    /\ K.did = "return"
    /\ fitted
    /\ Len(K.window) > 100
    /\ Len(K.features) = 9
    /\ \E a \in Addrs : RecordsOf(K.window, a) \in 1..4

\* ---- C13
\* The kinds of the alerts of a list, in order.
Kinds(alerts) == [i \in DOMAIN alerts |-> alerts[i].threat_type]

\* The kinds the rules call for on the latest packet, judged on the window
\* that holds it, in the order scan, sensitive port, flood.
KindsDue ==
    (IF /\ V.packet.dst_port \notin {None, 0}
        /\ Cardinality(PortsCarried(V.packet.src_ip, V.at) \ {0}) > 20
     THEN <<"PORT_SCAN">> ELSE <<>>)
    \o (IF V.packet.dst_port \in SensitivePorts THEN <<"SUSPICIOUS_PORT">> ELSE <<>>)
    \o (IF CountWithin(V.packet.src_ip, V.at, 10) > 100 THEN <<"DDOS">> ELSE <<>>)

C14_SinkFailureKeepsAlert ==
    /\ Len(db.threats) + db.failed = Len(threat_alerts)
    /\ \A kind \in {"PORT_SCAN", "SUSPICIOUS_PORT", "DDOS"} :
          NumAlerts(db.threats, kind) <= NumAlerts(threat_alerts, kind)
    /\ \A i \in DOMAIN db.threats :
          \E j \in DOMAIN threat_alerts : j >= i /\ threat_alerts[j] = db.threats[i]
    /\ \A i \in DOMAIN threat_alerts : threat_alerts[i].source_ip \in suspicious_ips
    /\ verdict # <<>> =>
          /\ packet_buffer[Len(packet_buffer)] = V.packet
          /\ Kinds(V.emitted) = KindsDue
          /\ SubSeq(threat_alerts, Len(threat_alerts) - Len(V.emitted) + 1,
                    Len(threat_alerts)) = V.emitted

\* C14's case: the write of a packet's PORT_SCAN alert failed, the
\* SUSPICIOUS_PORT alert of the same packet was emitted and stored after it,
\* and both alerts are in the list.
C14_Witness ==
    /\ verdict # <<>>
    /\ db.failed = 1
    /\ db.failing = 0
    /\ Kinds(V.emitted) = <<"PORT_SCAN", "SUSPICIOUS_PORT">>
    /\ NumAlerts(db.threats, "PORT_SCAN") = NumAlerts(threat_alerts, "PORT_SCAN") - 1
    /\ NumAlerts(db.threats, "SUSPICIOUS_PORT") = NumAlerts(threat_alerts, "SUSPICIOUS_PORT")
    /\ db.threats # <<>>
    /\ db.threats[Len(db.threats)] = V.emitted[2]
    /\ "A" \in suspicious_ips

\* ---- C12
\* C12: every window state an analysis cycle reads (the one its features
\* are extracted from and the ones its alerts are attributed from) is one
\* and the same, whatever is ingested while the cycle runs.
C12_OneSnapshot ==
    \A k \in DOMAIN analysis.reads : analysis.reads[k] = analysis.window

\* ---- C15
\* C15: ml_analysis is entered only while monitoring is active; once
\* stop_monitoring has cleared the flag no analysis cycle begins.
C15_NoCycleWhenStopped ==
    [][(analysis.pc = "sleep" /\ analysis'.pc = "extract") => is_monitoring]_vars

\* ---- C16
\* C16: in every reachable state the records of the window are in
\* non-decreasing order of timestamp from the oldest to the newest.
C16_TimeOrder ==
    \A i, j \in DOMAIN packet_buffer :
        i < j => packet_buffer[i].timestamp <= packet_buffer[j].timestamp

\* ---- C17
\* How many packets of the source a the capture loop has ingested: the
\* packets the network has delivered, less the one whose callback has not
\* reached the append yet.
IngestedFrom(a) ==
    LET delivered == net.main - (IF capture[1].pc = "stamped" THEN 1 ELSE 0)
    IN  Cardinality({k \in 0..(delivered - 1) : MlSender(k) = a})

\* C17: the tracker's count for every source address is the number of
\* records ingested from it since the engine was constructed, whatever was
\* evicted, analysed, alerted, started or stopped since; so it is never
\* below the number of that source's records in the window.
C17_TrackerCumulative ==
    \A a \in Addrs :
        /\ connection_tracker[a] = IngestedFrom(a)
        /\ connection_tracker[a] >= RecordsOf(packet_buffer, a)

\* C17's case: the window has evicted a record of H1, monitoring was
\* started and stopped, two analysis cycles ran and an alert was emitted;
\* H1's count is above its records in the window.
C17_Witness ==
    /\ Len(packet_buffer) = config.PACKET_BUFFER_SIZE
    /\ connection_tracker["H1"] > RecordsOf(packet_buffer, "H1")
    /\ connection_tracker["H1"] = IngestedFrom("H1")
    /\ ~is_monitoring
    /\ capture[1].pc = "off"
    /\ analysis.cycles = 2
    /\ threat_alerts # <<>>

\* ---- C18
\* The source addresses of the alerts of the list.
AlertSources == {threat_alerts[i].source_ip : i \in DOMAIN threat_alerts}

\* C18: no step removes, reorders or changes an alert of the list (the old
\* list is a prefix of the new one) and no step takes an address out of the
\* suspicious set; after every emission the set is exactly the set of the
\* sources of the listed alerts, so it is never larger than the list.
C18_AlertsOnlyGrow ==
    /\ [](/\ suspicious_ips = AlertSources
          /\ Cardinality(suspicious_ips) <= Len(threat_alerts))
    /\ [][/\ Len(threat_alerts') >= Len(threat_alerts)
          /\ SubSeq(threat_alerts', 1, Len(threat_alerts)) = threat_alerts
          /\ suspicious_ips \subseteq suspicious_ips']_vars

\* C18's case: two sources have alerts, one of them several, and packets
\* that emitted nothing were ingested after the first alert.
C18_Witness ==
    /\ suspicious_ips = {"B", "C"}
    /\ Len(threat_alerts) > 3
    /\ threat_alerts[1].source_ip = "C"
    /\ verdict # <<>>
    /\ V.emitted = <<>>

\* ---- C19
\* The alerts of a list newer than the cutoff of a query for the last
\* `hours` hours.
NewerThanCutoff(alerts, hours) ==
    SelectSeq(alerts, LAMBDA a : a.timestamp > now - hours * 3600)

\* C19: get_recent_alerts(hours) returns every alert the engine has emitted
\* (every alert get_status counts) that is newer than now - hours*3600, no
\* alert at or before that cutoff, the most recent first.
C19_QueryBoundary ==
    \A hours \in 0..MaxHours :
        LET result == get_recent_alerts(db, hours, now)
            due == NewerThanCutoff(threat_alerts, hours)
        IN  /\ Len(threat_alerts) = get_status.threat_alerts
            /\ Len(result) = Len(due)
            /\ \A i \in DOMAIN due : \E k \in DOMAIN result : result[k] = due[i]
            /\ \A k \in DOMAIN result : result[k].timestamp > now - hours * 3600
            /\ \A k \in 1..(Len(result) - 1) :
                  result[k].timestamp >= result[k + 1].timestamp

\* What does hold of the query: it returns the stored rows newer than the
\* cutoff, each once, the most recent first.
C19_QueryOfRows ==
    \A hours \in 0..MaxHours :
        LET result == get_recent_alerts(db, hours, now)
            due == NewerThanCutoff(db.threats, hours)
        IN  /\ Len(result) = Len(due)
            /\ \A i \in DOMAIN due : \E k \in DOMAIN result : result[k] = due[i]
            /\ \A k \in DOMAIN result : result[k].timestamp > now - hours * 3600
            /\ \A k \in 1..(Len(result) - 1) :
                  result[k].timestamp >= result[k + 1].timestamp

\* ---- C20
\* The value the configuration sets for a key, or the default.
Setting(key, default) ==
    IF key \in DOMAIN config THEN config[key] ELSE default

\* C20: the flood detector fires iff the records of the packet's source aged
\* below the configured flood window number more than the configured flood
\* threshold, and the scan detector iff the packet carries a port and its
\* source's distinct ports within the configured scan window number more
\* than the configured port threshold; without settings 10s/100 and 60s/20
\* apply.
C20_ConfiguredThresholds ==
    verdict # <<>> =>
        /\ V.ddos <=> CountWithin(V.packet.src_ip, V.at, Setting("DDOS_WINDOW", 10))
                          > Setting("DDOS_THRESHOLD", 100)
        /\ V.scan <=>
              /\ V.packet.dst_port \notin {None, 0}
              /\ Cardinality({r.dst_port :
                                 r \in Within(V.packet.src_ip, V.at,
                                              Setting("PORT_SCAN_WINDOW", 60))}
                              \ {None, 0})
                    > Setting("PORT_SCAN_THRESHOLD", 20)

\* What does hold: whatever the configuration sets, the detectors use
\* 10s/100 and 60s/20.
C20_FixedThresholds ==
    verdict # <<>> =>
        /\ V.ddos <=> CountWithin(V.packet.src_ip, V.at, 10) > 100
        /\ V.scan <=>
              /\ V.packet.dst_port \notin {None, 0}
              /\ Cardinality(PortsCarried(V.packet.src_ip, V.at) \ {0}) > 20

\* ---- C21
\* C21: whenever monitoring has been stopped while a capture loop runs, that
\* loop eventually ends, as long as frames keep arriving at it, whatever
\* start requests come later.
C21_StopEndsCapture ==
    \A l \in Loops :
        (~is_monitoring /\ capture[l].pc # "off") ~> (capture[l].pc = "off")

\* What does hold: a stopped loop ends unless monitoring is started again
\* before its stop_filter runs.
C21_EndsUnlessRestarted ==
    \A l \in Loops :
        (~is_monitoring /\ capture[l].pc # "off")
            ~> (capture[l].pc = "off" \/ is_monitoring)

\* ---- C22
\* The capture loops that are running.
Running == {l \in Loops : capture[l].pc # "off"}

\* C22: whatever start and stop requests come, at most one capture loop
\* runs at any time, so the window and the tracker have one writer.
C22_SingleLoop == Cardinality(Running) <= 1

\* What does hold: a start request that finds monitoring active starts no
\* loop.
C22_NoStartWhileActive ==
    [][is_monitoring => Running' \subseteq Running]_vars

====
